---------------------------- MODULE Spec2Model ----------------------------
(***************************************************************************)
(* dmux popups: the host-side PopupManager (launchPopup, handleResult and  *)
(* the public launch operations) and the new-pane popup session with its   *)
(* "@file" mention detection (NewPanePopupApp).                             *)
(*                                                                         *)
(* Conventions.  An optional JavaScript value is a sequence of length at   *)
(* most one: << >> is undefined/null, <<v>> is the value v.  A string the  *)
(* program inspects character by character is a sequence of one-character  *)
(* strings.  One action is one synchronous run of the event loop: from the *)
(* resumption of an await (or the call) to the next await (or the return). *)
(***************************************************************************)
EXTENDS Integers, Sequences, FiniteSets, TLC

(***************************************************************************)
(* Bounds of the model.                                                    *)
(***************************************************************************)
NumCalls == 2
MaxClock == 1

Calls == 1..NumCalls

(***************************************************************************)
(* Program constants.                                                      *)
(***************************************************************************)
DefaultDuration == 3000
ShortDuration == 2000

VARIABLES
    popupsSupported,  \* config.popupsSupported
    clock,            \* what Date.now() returns
    files,            \* /tmp: set of [path, writer]
    statusMessage,    \* last value given to setStatusMessage
    timers,           \* pending setTimeout(() => setStatusMessage(""), d): sequence of d
    ignoreInput,      \* last value given to setIgnoreInput
    ignoreTimers,     \* pending setTimeout(() => setIgnoreInput(false), INPUT_IGNORE_DELAY)
    call,             \* per call of a public launch operation: its frame
    \* NewPanePopupApp (the popup session)
    prompt,             \* useState("")
    isFileListActive,   \* useState(false)
    filteredFiles,      \* useState([])
    selectedFileIndex,  \* useState(0)
    atPosition,         \* useState(-1)
    cursorPosition,     \* useState(undefined): the cursor override
    currentCursor,      \* useState(0): the cursor CleanTextInput reports
    effectDue,          \* prompt or currentCursor changed since the detection effect ran
    outcome,            \* what the session wrote to its result file, if it has ended
    last                \* the last step of the session and the branch it took

launcherVars ==
    <<popupsSupported, clock, files, statusMessage, timers, ignoreInput,
      ignoreTimers, call>>

sessionVars ==
    <<prompt, isFileListActive, filteredFiles, selectedFileIndex, atPosition,
      cursorPosition, currentCursor, effectDue, outcome, last>>

Undefined == << >>
Some(v) == <<v>>
IsDefined(o) == o # << >>

(***************************************************************************)
(* The public launch operations, by the popup script each one launches.    *)
(***************************************************************************)
Ops ==
    {"newPanePopup", "kebabMenuPopup", "confirmPopup", "agentChoicePopup",
     "hooksPopup", "logsPopup", "shortcutsPopup", "settingsPopup",
     "choicePopup", "projectSelectPopup", "inputPopup", "progressPopup",
     "reopenWorktreePopup"}

\* The operations launched while other launches are outstanding.
ConcurrentOps == {"logsPopup"}

\* Whether the operation passes a fourth argument (tempData) to launchPopup.
HasTempData(op) ==
    op \in {"confirmPopup", "logsPopup", "shortcutsPopup", "choicePopup",
            "projectSelectPopup", "inputPopup", "progressPopup",
            "reopenWorktreePopup"}

\* options.positioning of the operation.
PositioningOf(op) ==
    CASE op = "logsPopup" -> "large"
      [] op \in {"newPanePopup", "projectSelectPopup"} -> "centered"
      [] OTHER -> "standard"

\* The value the operation returns when it has nothing to give.
NullValue(op) ==
    CASE op = "confirmPopup" -> "false"
      [] op \in {"hooksPopup", "logsPopup", "progressPopup"} -> "void"
      [] OTHER -> "null"

(***************************************************************************)
(* PopupResult<T>: success and cancelled are booleans (absent = FALSE),    *)
(* data and error are optional.  The data a popup of each kind can give    *)
(* is named by the one field the operation looks at.                       *)
(***************************************************************************)
PopupResult(s, d, c, e) == [success |-> s, data |-> d, cancelled |-> c, error |-> e]
Success(d) == PopupResult(TRUE, Some(d), FALSE, Undefined)
SuccessNoData == PopupResult(TRUE, Undefined, FALSE, Undefined)
Cancelled == PopupResult(FALSE, Undefined, TRUE, Undefined)
Error(m) == PopupResult(FALSE, Undefined, FALSE, Some(m))

DataOf(op) ==
    CASE op = "hooksPopup" -> {"{}", "{action:edit}", "{action:view}"}
      [] op = "logsPopup" -> {"{}", "{clearLogs:true}"}
      [] op = "shortcutsPopup" -> {"{}", "{action:hooks}"}
      [] op = "settingsPopup" -> {"{key,value,scope}", "{action:hooks}"}
      [] op = "confirmPopup" -> {"true", "false"}
      [] op = "progressPopup" -> {}
      [] OTHER -> {"x"}

\* What the popup's resultPromise can resolve to.
ResultsOf(op) ==
    {Success(d) : d \in DataOf(op)} \cup {SuccessNoData, Cancelled, Error("boom")}

\* JavaScript truthiness of an optional string / of optional data.
TruthyString(o) == IsDefined(o) /\ o[1] # ""
TruthyData(o) == IsDefined(o) /\ o[1] \notin {"false", ""}

(***************************************************************************)
(* JavaScript values of a payload, as trees.  A number is named by its     *)
(* literal; an object is the sequence of its members <<key, value>> in     *)
(* insertion order.                                                        *)
(***************************************************************************)
JUndefined == [t |-> "undefined"]
JNull == [t |-> "null"]
JString(s) == [t |-> "string", s |-> s]
JNumber(n) == [t |-> "number", n |-> n]
JBoolean(b) == [t |-> "boolean", b |-> b]
JArray(a) == [t |-> "array", a |-> a]
JObject(o) == [t |-> "object", o |-> o]

\* The numbers that are not finite.
NonFinite == {"NaN", "Infinity", "-Infinity"}

(***************************************************************************)
(* JSON.stringify(value): the document as its sequence of tokens.  A       *)
(* member whose value is undefined is left out, an undefined element of an *)
(* array and a number that is not finite are written as null.              *)
(***************************************************************************)
Tok(k, v) == [k |-> k, v |-> v]
Punct(c) == Tok("punct", c)
NullTok == Tok("literal", "null")

\* Mutant: every payload is written as null.
JSONstringify_Null(x) == <<NullTok>>

RECURSIVE JSONstringify(_)
RECURSIVE stringifyElements(_)
RECURSIVE stringifyMembers(_, _)
JSONstringify(x) ==
    CASE x.t = "string" -> <<Tok("string", x.s)>>
      [] x.t = "number" -> IF x.n \in NonFinite THEN <<NullTok>>
                           ELSE <<Tok("number", x.n)>>
      [] x.t = "boolean" -> <<Tok("literal", IF x.b THEN "true" ELSE "false")>>
      [] x.t = "null" -> <<NullTok>>
      [] x.t = "array" -> <<Punct("[")>> \o stringifyElements(x.a) \o <<Punct("]")>>
      [] x.t = "object" ->
             <<Punct("{")>> \o stringifyMembers(x.o, TRUE) \o <<Punct("}")>>

stringifyElements(a) ==
    IF a = << >> THEN << >>
    ELSE (IF Head(a).t = "undefined" THEN <<NullTok>> ELSE JSONstringify(Head(a)))
           \o (IF Len(a) > 1 THEN <<Punct(",")>> ELSE << >>)
           \o stringifyElements(Tail(a))

stringifyMembers(o, first) ==
    IF o = << >> THEN << >>
    ELSE IF Head(o)[2].t = "undefined" THEN stringifyMembers(Tail(o), first)
    ELSE (IF first THEN << >> ELSE <<Punct(",")>>)
           \o <<Tok("string", Head(o)[1]), Punct(":")>>
           \o JSONstringify(Head(o)[2])
           \o stringifyMembers(Tail(o), FALSE)

(***************************************************************************)
(* JSON.parse(document), as the popup reads its input: the value and the   *)
(* tokens left after it.                                                   *)
(***************************************************************************)
RECURSIVE parseValue(_)
RECURSIVE parseElements(_, _)
RECURSIVE parseMembers(_, _)
parseValue(toks) ==
    LET h == Head(toks)
    IN  CASE h.k = "string" -> [v |-> JString(h.v), rest |-> Tail(toks)]
          [] h.k = "number" -> [v |-> JNumber(h.v), rest |-> Tail(toks)]
          [] h.k = "literal" ->
                 [v |-> IF h.v = "null" THEN JNull ELSE JBoolean(h.v = "true"),
                  rest |-> Tail(toks)]
          [] h = Punct("[") -> parseElements(Tail(toks), << >>)
          [] h = Punct("{") -> parseMembers(Tail(toks), << >>)

parseElements(toks, acc) ==
    IF Head(toks) = Punct("]") THEN [v |-> JArray(acc), rest |-> Tail(toks)]
    ELSE LET e == parseValue(IF Head(toks) = Punct(",") THEN Tail(toks) ELSE toks)
         IN  parseElements(e.rest, Append(acc, e.v))

parseMembers(toks, acc) ==
    IF Head(toks) = Punct("}") THEN [v |-> JObject(acc), rest |-> Tail(toks)]
    ELSE LET m == IF Head(toks) = Punct(",") THEN Tail(toks) ELSE toks
             e == parseValue(Tail(Tail(m)))
         IN  parseMembers(e.rest, Append(acc, <<Head(m).v, e.v>>))

JSONparse(doc) == parseValue(doc).v

(***************************************************************************)
(* The payloads (tempData) the launch operations pass to launchPopup.      *)
(***************************************************************************)
OptionalString == {JUndefined, JString("s")}

Worktree(dirty) ==
    JObject(<< <<"slug", JString("s")>>, <<"path", JString("/p")>>,
               <<"lastModified", JString("2024-01-02T03:04:05.000Z")>>,
               <<"branch", JString("b")>>,
               <<"hasUncommittedChanges", JBoolean(dirty)>> >>)

ChoiceOption(description, danger) ==
    JObject(<< <<"id", JString("i")>>, <<"label", JString("l")>>,
               <<"description", description>>, <<"danger", danger>> >>)

PayloadsOf(op) ==
    CASE op = "confirmPopup" ->
             {JObject(<< <<"title", JString("t")>>, <<"message", JString("m")>>,
                         <<"yesLabel", y>>, <<"noLabel", n>> >>) :
                 y \in OptionalString, n \in OptionalString}
      [] op = "logsPopup" ->
             {JObject(<< <<"logs", JArray(<< >>)>>,
                         <<"stats", JObject(<< <<"total", JNumber("0")>> >>)>>,
                         <<"panes", JArray(<< >>)>> >>)}
      [] op = "shortcutsPopup" ->
             {JObject(<< <<"hasSidebarLayout", JBoolean(b)>> >>) : b \in BOOLEAN}
      [] op = "choicePopup" ->
             {JObject(<< <<"title", JString("t")>>, <<"message", JString("m")>>,
                         <<"options", JArray(o)>> >>) :
                 o \in {<< >>} \cup
                       {<<ChoiceOption(d, g)>> :
                           d \in OptionalString,
                           g \in {JUndefined, JBoolean(TRUE)}}}
      [] op = "projectSelectPopup" ->
             {JObject(<< <<"defaultValue", JString(v)>> >>) : v \in {"", "s"}}
      [] op = "inputPopup" ->
             {JObject(<< <<"title", JString("t")>>, <<"message", JString("m")>>,
                         <<"placeholder", h>>, <<"defaultValue", v>> >>) :
                 h \in OptionalString, v \in OptionalString}
      [] op = "progressPopup" ->
             {JObject(<< <<"message", JString("m")>>, <<"type", JString("info")>>,
                         <<"timeout", JNumber(n)>> >>) : n \in {"2000", "NaN"}}
      [] op = "reopenWorktreePopup" ->
             {JObject(<< <<"worktrees", JArray(w)>> >>) :
                 w \in {<< >>, <<Worktree(TRUE)>>,
                        <<Worktree(FALSE), Worktree(TRUE)>>}}
      [] OTHER -> {JUndefined}

\* The payload of the launches of Spec and SpecConcurrent.
tempDataOf(op) == CHOOSE p \in PayloadsOf(op) : TRUE

(***************************************************************************)
(* The channel (temp) file name of line 431.                               *)
(***************************************************************************)
TempFileName(scriptName, now) == [script |-> scriptName, t |-> now]

(***************************************************************************)
(* A frame: the locals of one call of a public launch operation and of the *)
(* launchPopup call inside it, and what the call has done so far.          *)
(***************************************************************************)
IdleFrame ==
    [pc |-> "idle", op |-> "", tempData |-> JUndefined,
     tempFile |-> Undefined, result |-> Undefined,
     ret |-> Undefined, created |-> FALSE, events |-> << >>, spawned |-> 0,
     launchExit |-> "none", shown |-> 0, defaultShown |-> 0,
     onErrorCalls |-> 0, branch |-> "none", value |-> Undefined,
     effects |-> {}, failure |-> "none", onSuccess |-> "none",
     onError |-> "none"]

\* The state a synchronous run works on: the host's state and the frame.
World(i) ==
    [statusMessage |-> statusMessage, timers |-> timers,
     ignoreInput |-> ignoreInput, ignoreTimers |-> ignoreTimers,
     c |-> call[i]]

Commit(i, w) ==
    /\ statusMessage' = w.statusMessage
    /\ timers' = w.timers
    /\ ignoreInput' = w.ignoreInput
    /\ ignoreTimers' = w.ignoreTimers
    /\ call' = [call EXCEPT ![i] = w.c]


(***************************************************************************)
(* Status messages are sequences of their parts; "" is the empty sequence. *)
(***************************************************************************)
NoMessage == << >>
MsgUnsupported == <<"Popups require tmux 3.2+">>
MsgFailed == <<"Failed to launch popup: ", "error.message">>
MsgProgress == <<"message">>
MsgLogsCleared == <<"Logs cleared">>
MsgViewNotImplemented == <<"View in editor not yet implemented">>
PopupErrorMsg(error) == <<"Popup error: ", error>>

(***************************************************************************)
(* showTempMessage: set the status message and schedule its clearing.      *)
(***************************************************************************)
showTempMessage(w, message, duration) ==
    [w EXCEPT !.statusMessage = message,
              !.timers = Append(@, duration),
              !.c.shown = @ + 1]

\* ignoreInputBriefly: ignore input until a timer ends it.
ignoreInputBriefly(w) ==
    [w EXCEPT !.ignoreInput = TRUE, !.ignoreTimers = @ + 1]

(***************************************************************************)
(* The callbacks the source passes to handleResult (launchKebabMenuPopup): *)
(* onSuccess logs and returns the data, onError logs and shows the error.  *)
(***************************************************************************)
kebabOnSuccess(data) == Some(data)

kebabOnError(w, errorMsg) ==
    showTempMessage([w EXCEPT !.c.onErrorCalls = @ + 1], errorMsg, DefaultDuration)

(***************************************************************************)
(* handleResult(result, onSuccess, onError): the value returned is left in *)
(* the frame's value (Undefined is null), the branch taken in branch.      *)
(* onSuccess and onError are "none" (not supplied) or "kebab".             *)
(***************************************************************************)
\* Mutant: the default notification is shown even with an error callback.
handleResultError_Both(w, result, onError) ==
    LET errorMsg == PopupErrorMsg(result.error[1])
        called == IF onError # "none" THEN kebabOnError(w, errorMsg) ELSE w
        notified == showTempMessage([called EXCEPT !.c.defaultShown = @ + 1],
                                    errorMsg, DefaultDuration)
    IN  [notified EXCEPT !.c.value = Undefined, !.c.branch = "error"]

handleResultError(w, result, onError) ==
    LET errorMsg == PopupErrorMsg(result.error[1])
        notified ==
            IF onError # "none"
            THEN kebabOnError(w, errorMsg)
            ELSE showTempMessage([w EXCEPT !.c.defaultShown = @ + 1],
                                 errorMsg, DefaultDuration)
    IN  [notified EXCEPT !.c.value = Undefined, !.c.branch = "error"]

\* Mutant: a cancelled result is reported like an error.
handleResult_CancelNotifies(w, result, onSuccess, onError) ==
    IF result.success /\ IsDefined(result.data)
    THEN [w EXCEPT !.c.value = result.data, !.c.branch = "success"]
    ELSE IF result.cancelled
    THEN [showTempMessage(w, <<"Popup cancelled">>, DefaultDuration)
            EXCEPT !.c.value = Undefined, !.c.branch = "cancelled"]
    ELSE IF TruthyString(result.error)
    THEN handleResultError(w, result, onError)
    ELSE [w EXCEPT !.c.value = Undefined, !.c.branch = "fallthrough"]

handleResult(w, result, onSuccess, onError) ==
    IF result.success /\ IsDefined(result.data)
    THEN [w EXCEPT !.c.value = IF onSuccess # "none"
                               THEN kebabOnSuccess(result.data[1])
                               ELSE result.data,
                   !.c.branch = "success"]
    ELSE IF result.cancelled
    THEN [w EXCEPT !.c.value = Undefined, !.c.branch = "cancelled"]
    ELSE IF TruthyString(result.error)
    THEN handleResultError(w, result, onError)
    ELSE [w EXCEPT !.c.value = Undefined, !.c.branch = "fallthrough"]

(***************************************************************************)
(* The end of a public launch operation: it returns v.                     *)
(***************************************************************************)
Return(w, v) == [w EXCEPT !.c.ret = Some(v), !.c.pc = "done"]

\* handleResult's value as the operation returns it (null when there is none).
ValueOrNull(w) == IF IsDefined(w.c.value) THEN w.c.value[1] ELSE "null"

\* Mutant: the operation lets the exception through.
OpCatch_Rethrow(w) == [w EXCEPT !.c.pc = "done"]

\* The catch block of a public launch operation.
OpCatch(w) ==
    LET op == w.c.op
    IN  IF op = "progressPopup"
        THEN Return(showTempMessage(w, MsgProgress, ShortDuration), "void")
        ELSE Return(showTempMessage(w, MsgFailed, DefaultDuration), NullValue(op))

(***************************************************************************)
(* What each public launch operation does with the result of launchPopup.  *)
(***************************************************************************)
launchNewPanePopup(w, result) ==
    LET h == handleResult(ignoreInputBriefly(w), result, "none", "none")
    IN  Return(h, ValueOrNull(h))

launchKebabMenuPopup(w, result) ==
    LET h == handleResult(w, result, "kebab", "kebab")
    IN  Return(h, ValueOrNull(h))

launchConfirmPopup(w, result) ==
    LET h == handleResult(w, result, "none", "none")
    IN  Return(h, IF IsDefined(h.c.value) THEN h.c.value[1] ELSE "false")

\* launchAgentChoicePopup, launchChoicePopup, launchInputPopup and
\* launchReopenWorktreePopup: return this.handleResult(result).
launchPlainPopup(w, result) ==
    LET h == handleResult(w, result, "none", "none")
    IN  Return(h, ValueOrNull(h))

launchHooksPopup(w, result) ==
    LET h == handleResult(w, result, "none", "none")
    IN  IF h.c.value = Some("{action:edit}")
        THEN [h EXCEPT !.c.pc = "callback"]
        ELSE IF h.c.value = Some("{action:view}")
        THEN Return(showTempMessage(h, MsgViewNotImplemented, ShortDuration), "void")
        ELSE Return(h, "void")

launchLogsPopup(w, result) ==
    IF result.success
    THEN LET read == [w EXCEPT !.c.effects = @ \cup {"markAllLogsAsRead"}]
         IN  IF result.data = Some("{clearLogs:true}")
             THEN Return(showTempMessage(
                             [read EXCEPT !.c.effects = @ \cup {"clearAll"}],
                             MsgLogsCleared, ShortDuration), "void")
             ELSE Return(read, "void")
    ELSE Return(w, "void")

launchShortcutsPopup(w, result) ==
    LET h == handleResult(ignoreInputBriefly(w), result, "none", "none")
    IN  Return(h, IF h.c.value = Some("{action:hooks}") THEN "hooks" ELSE "null")

launchSettingsPopup(w, result) ==
    IF result.success
    THEN IF result.data = Some("{action:hooks}")
         THEN [w EXCEPT !.c.pc = "callback"]
         ELSE IF TruthyData(result.data)
         THEN Return(w, result.data[1])
         ELSE Return(w, "null")
    ELSE Return(w, "null")

launchProjectSelectPopup(w, result) ==
    LET h == handleResult(ignoreInputBriefly(w), result, "none", "none")
    IN  Return(h, ValueOrNull(h))

launchProgressPopup(w, result) == Return(w, "void")

\* The code after "await this.launchPopup(...)" of the operation w.c.op.
AfterLaunch(w, result) ==
    LET op == w.c.op
    IN  CASE op = "newPanePopup" -> launchNewPanePopup(w, result)
          [] op = "kebabMenuPopup" -> launchKebabMenuPopup(w, result)
          [] op = "confirmPopup" -> launchConfirmPopup(w, result)
          [] op = "hooksPopup" -> launchHooksPopup(w, result)
          [] op = "logsPopup" -> launchLogsPopup(w, result)
          [] op = "shortcutsPopup" -> launchShortcutsPopup(w, result)
          [] op = "settingsPopup" -> launchSettingsPopup(w, result)
          [] op = "projectSelectPopup" -> launchProjectSelectPopup(w, result)
          [] op = "progressPopup" -> launchProgressPopup(w, result)
          [] OTHER -> launchPlainPopup(w, result)

(***************************************************************************)
(* launchPopup, cut at its awaits.  spawnOk says whether the call of       *)
(* launchNodePopupNonBlocking returns a handle (TRUE) or throws (FALSE).   *)
(***************************************************************************)
\* launchPopup returns result to the operation that awaits it.
launchPopupReturn(w, result) ==
    AfterLaunch([w EXCEPT !.c.launchExit = "returned"], result)

\* "throw error" at the end of the catch block: the operation's catch runs.
launchPopupThrow(w) == OpCatch([w EXCEPT !.c.launchExit = "thrown"])

\* Mutant: the catch block rethrows without the cleanup.
launchPopupCatch_NoUnlink(w) == launchPopupThrow(w)

\* The catch block: unlink the temp file if there is one, then rethrow.
launchPopupCatch(w) ==
    IF IsDefined(w.c.tempFile)
    THEN [w EXCEPT !.c.pc = "unlinkCatch"]
    ELSE launchPopupThrow(w)

\* "Launch popup" and "Wait for result".
launchNodePopupNonBlocking(w, spawnOk) ==
    IF spawnOk
    THEN [w EXCEPT !.c.pc = "resultPromise",
                   !.c.events = Append(@, "spawn"),
                   !.c.spawned = @ + 1]
    ELSE launchPopupCatch([w EXCEPT !.c.failure = "spawn"])

\* "Get positioning".
getPositioning(w, spawnOk) ==
    IF PositioningOf(w.c.op) = "large"
    THEN [w EXCEPT !.c.pc = "getAllDimensions"]
    ELSE launchNodePopupNonBlocking(w, spawnOk)

\* Mutant: the popup is launched before its input is written.
launchPopup_SpawnFirst(w, now, spawnOk) ==
    IF HasTempData(w.c.op)
    THEN [w EXCEPT !.c.tempFile = Some(TempFileName(w.c.op, now)),
                   !.c.events = Append(@, "spawn"),
                   !.c.spawned = @ + 1,
                   !.c.pc = "writeFile"]
    ELSE getPositioning(w, spawnOk)

\* "Write temp file if data provided".
launchPopup(w, now, spawnOk) ==
    IF HasTempData(w.c.op)
    THEN [w EXCEPT !.c.tempFile = Some(TempFileName(w.c.op, now)),
                   !.c.pc = "writeFile"]
    ELSE getPositioning(w, spawnOk)

\* fs.writeFile(path, content) by call i, and fs.unlink(path): their
\* effect on /tmp.
WriteFile(fs, path, i, content) ==
    {f \in fs : f.path # path}
        \cup {[path |-> path, writer |-> i, content |-> content]}

Unlink(fs, path) == {f \in fs : f.path # path}

Exists(fs, path) == \E f \in fs : f.path = path

(***************************************************************************)
(* A public launch operation is called: it runs to its first await.        *)
(*   checkPopupSupport (launchProgressPopup: its own test) and the start   *)
(*   of the try block.                                                     *)
(***************************************************************************)
\* Mutant: the support test is left out.
checkPopupSupport_Skipped(w) == w

\* "if (!this.checkPopupSupport()) return null": the frame is done when
\* popups are not supported.
checkPopupSupport(w) ==
    IF ~popupsSupported
    THEN Return(showTempMessage(w, MsgUnsupported, DefaultDuration), NullValue(w.c.op))
    ELSE w

\* launchProgressPopup's own test: it shows the message in the status line.
progressPopupSupport(w) ==
    IF ~popupsSupported
    THEN Return(showTempMessage(w, MsgProgress, ShortDuration), "void")
    ELSE w

Launch(i, op, tempData, spawnOk) ==
    /\ call[i].pc = "idle"
    /\ LET w0 == [World(i) EXCEPT !.c.op = op, !.c.pc = "try",
                                  !.c.tempData = tempData]
           w == IF op = "progressPopup" THEN progressPopupSupport(w0)
                ELSE checkPopupSupport(w0)
       IN  Commit(i, IF w.c.pc = "done" THEN w
                     ELSE IF op = "hooksPopup" THEN [w EXCEPT !.c.pc = "import"]
                     ELSE launchPopup(w, clock, spawnOk))
    /\ UNCHANGED <<sessionVars, popupsSupported, clock, files>>

Start(i, op, spawnOk) == Launch(i, op, tempDataOf(op), spawnOk)

\* launchHooksPopup: "await import(...)" ends.
ImportDone(i, ok, spawnOk) ==
    /\ call[i].pc = "import"
    /\ Commit(i, IF ok THEN launchPopup(World(i), clock, spawnOk)
                 ELSE OpCatch([World(i) EXCEPT !.c.failure = "import"]))
    /\ UNCHANGED <<sessionVars, popupsSupported, clock, files>>

\* "await fs.writeFile(...)" ends: written, or failed having created the
\* file (partial) or not.
WriteFileDone(i, ok, partial, spawnOk) ==
    /\ call[i].pc = "writeFile"
    /\ LET path == call[i].tempFile[1]
           made == ok \/ partial
           w == IF made
                THEN [World(i) EXCEPT !.c.created = TRUE,
                                      !.c.events = Append(@, "create")]
                ELSE World(i)
           content == IF ok THEN JSONstringify(call[i].tempData) ELSE << >>
       IN  /\ files' = IF made THEN WriteFile(files, path, i, content) ELSE files
           /\ Commit(i, IF ok THEN getPositioning(w, spawnOk)
                        ELSE launchPopupCatch([w EXCEPT !.c.failure = "writeFile"]))
    /\ UNCHANGED <<sessionVars, popupsSupported, clock>>

\* "await tmuxService.getAllDimensions()" ends.
GetAllDimensionsDone(i, ok, spawnOk) ==
    /\ call[i].pc = "getAllDimensions"
    /\ Commit(i, IF ok THEN launchNodePopupNonBlocking(World(i), spawnOk)
                 ELSE launchPopupCatch(
                          [World(i) EXCEPT !.c.failure = "getAllDimensions"]))
    /\ UNCHANGED <<sessionVars, popupsSupported, clock, files>>

\* "await popupHandle.resultPromise" resolves with r.
ResultResolved(i, r) ==
    /\ call[i].pc = "resultPromise"
    /\ r \in ResultsOf(call[i].op)
    /\ LET w == [World(i) EXCEPT !.c.result = Some(r),
                                 !.c.events = Append(@, "result")]
       IN  Commit(i, IF IsDefined(w.c.tempFile)
                     THEN [w EXCEPT !.c.pc = "unlink"]
                     ELSE launchPopupReturn(w, r))
    /\ UNCHANGED <<sessionVars, popupsSupported, clock, files>>

\* "await popupHandle.resultPromise" rejects.
ResultRejected(i) ==
    /\ call[i].pc = "resultPromise"
    /\ Commit(i, launchPopupCatch([World(i) EXCEPT !.c.failure = "resultPromise"]))
    /\ UNCHANGED <<sessionVars, popupsSupported, clock, files>>

\* "await fs.unlink(tempFile)" of the try block ends (a rejection because
\* the file is already gone is swallowed): launchPopup returns the result.
UnlinkDone(i) ==
    /\ call[i].pc = "unlink"
    /\ files' = Unlink(files, call[i].tempFile[1])
    /\ Commit(i, launchPopupReturn(
                     [World(i) EXCEPT !.c.events = Append(@, "unlink")],
                     call[i].result[1]))
    /\ UNCHANGED <<sessionVars, popupsSupported, clock>>

\* "await fs.unlink(tempFile)" of the catch block ends: launchPopup rethrows.
UnlinkCatchDone(i) ==
    /\ call[i].pc = "unlinkCatch"
    /\ files' = Unlink(files, call[i].tempFile[1])
    /\ Commit(i, launchPopupThrow(
                     [World(i) EXCEPT !.c.events = Append(@, "unlink")]))
    /\ UNCHANGED <<sessionVars, popupsSupported, clock>>

\* "await onEditHooks()" / "await onLaunchHooks()" ends.
CallbackDone(i, ok) ==
    /\ call[i].pc = "callback"
    /\ LET w == [World(i) EXCEPT !.c.effects = @ \cup {"hooksCallback"}]
       IN  Commit(i, IF ok THEN Return(w, NullValue(w.c.op))
                     ELSE OpCatch([w EXCEPT !.c.failure = "callback"]))
    /\ UNCHANGED <<sessionVars, popupsSupported, clock, files>>

(***************************************************************************)
(* The environment: time passes, timers fire.                              *)
(***************************************************************************)
Tick ==
    /\ clock < MaxClock
    /\ clock' = clock + 1
    /\ UNCHANGED <<sessionVars, popupsSupported, files, statusMessage, timers, ignoreInput,
                   ignoreTimers, call>>

RemoveAt(seq, k) == SubSeq(seq, 1, k - 1) \o SubSeq(seq, k + 1, Len(seq))

\* The k-th pending timer of showTempMessage fires: no timer set earlier
\* with a duration at most its own is still pending.
StatusTimerFires(k) ==
    /\ k \in 1..Len(timers)
    /\ \A j \in 1..(k - 1) : timers[j] > timers[k]
    /\ statusMessage' = NoMessage
    /\ timers' = RemoveAt(timers, k)
    /\ UNCHANGED <<sessionVars, popupsSupported, clock, files, ignoreInput, ignoreTimers, call>>

\* A timer of ignoreInputBriefly fires.
IgnoreTimerFires ==
    /\ ignoreTimers > 0
    /\ ignoreInput' = FALSE
    /\ ignoreTimers' = ignoreTimers - 1
    /\ UNCHANGED <<sessionVars, popupsSupported, clock, files, statusMessage, timers, call>>

(***************************************************************************)
(*                      NewPanePopupApp: the popup session                 *)
(*                                                                         *)
(* Text is a sequence of one-character strings; positions are JavaScript   *)
(* positions (the first character is at 0).                                *)
(***************************************************************************)
MaxLen == 3

\* The longest text of SpecTyping.
MaxTyped == 4

Alphabet == {"@", "a", " ", "\n"}

\* The paths scanProjectFiles gives, in its order.
ProjectFiles == << <<"a">>, <<"b", "a">> >>

\* \s of a regular expression, over the characters used here.
IsWhitespace(ch) == ch \in {" ", "\n", "\t"}

\* s[i]: the character, or "undefined" out of range.
CharAt(s, i) == IF i >= 0 /\ i < Len(s) THEN s[i + 1] ELSE "undefined"

Min(a, b) == IF a <= b THEN a ELSE b
Max(a, b) == IF a >= b THEN a ELSE b

\* A slice index as String.prototype.slice reads it: negative counts from
\* the end, and the result is clamped to [0, length].
SliceIndex(s, k) == IF k < 0 THEN Max(Len(s) + k, 0) ELSE Min(k, Len(s))

\* s.slice(from, to) and s.slice(from).
Slice(s, from, to) == SubSeq(s, SliceIndex(s, from) + 1, SliceIndex(s, to))
SliceFrom(s, from) == SubSeq(s, SliceIndex(s, from) + 1, Len(s))

\* The length of the longest prefix of s without whitespace: /^([^\s]*)/.
RECURSIVE NonSpaceRun(_)
NonSpaceRun(s) ==
    IF s = << >> \/ IsWhitespace(Head(s)) THEN 0 ELSE 1 + NonSpaceRun(Tail(s))

\* The loop "for (let i = currentCursor - 1; i >= 0; i--)": the position of
\* the nearest "@" at or before i, or -1.
RECURSIVE ScanBack(_, _)
ScanBack(text, i) ==
    IF i < 0 THEN -1
    ELSE IF CharAt(text, i) = "@" THEN i
    ELSE ScanBack(text, i - 1)

\* const query, const endOfQuery.
QueryAfter(text, at) ==
    LET afterAt == SliceFrom(text, at + 1)
    IN  SubSeq(afterAt, 1, NonSpaceRun(afterAt))

EndOfQuery(text, at) == at + 1 + Len(QueryAfter(text, at))

\* Mutant: the reference has no end for the cursor.
CursorInReference_Open(text, cursor, at) == cursor >= at

\* Mutant: the cursor at the end of the query counts as outside.
CursorInReference_Strict(text, cursor, at) ==
    cursor >= at /\ cursor < EndOfQuery(text, at)

\* "Only show file list if cursor is within the @ reference".
CursorInReference(text, cursor, at) ==
    cursor >= at /\ cursor <= EndOfQuery(text, at)

\* Mutant: the cursor at the space already counts as past it.
ReferenceComplete_AtSpace(text, cursor, at) ==
    LET afterAt == SliceFrom(text, at + 1)
        query == QueryAfter(text, at)
        charAfterQuery == CharAt(afterAt, Len(query))
        spacePosition == at + 1 + Len(query)
    IN  charAfterQuery = " " /\ Len(query) > 0 /\ cursor >= spacePosition

\* "Only hide if": the reference is complete and the cursor is past it.
ReferenceComplete(text, cursor, at) ==
    LET afterAt == SliceFrom(text, at + 1)
        query == QueryAfter(text, at)
        charAfterQuery == CharAt(afterAt, Len(query))
        spacePosition == at + 1 + Len(query)
    IN  charAfterQuery = " " /\ Len(query) > 0 /\ cursor > spacePosition

\* fuzzyMatchFiles(query, files): the files of which query is a subsequence,
\* in the order of files; every file for the empty query.
RECURSIVE IsSubsequence(_, _)
IsSubsequence(q, f) ==
    IF q = << >> THEN TRUE
    ELSE IF f = << >> THEN FALSE
    ELSE IF Head(q) = Head(f) THEN IsSubsequence(Tail(q), Tail(f))
    ELSE IsSubsequence(q, Tail(f))

fuzzyMatchFiles(query, fileList) ==
    SelectSeq(fileList, LAMBDA f : IsSubsequence(query, f))

(***************************************************************************)
(* The "@" detection effect.  It yields the mention state it sets and the  *)
(* branch it took; scanOk is FALSE when scanProjectFiles or                *)
(* fuzzyMatchFiles throws.                                                 *)
(***************************************************************************)
Hidden(branch) ==
    [isFileListActive |-> FALSE, filteredFiles |-> << >>, atPosition |-> -1,
     selectedFileIndex |-> selectedFileIndex, branch |-> branch]

Detect(text, cursor, scanOk) ==
    LET atBeforeCursor == ScanBack(text, cursor - 1)
    IN  IF atBeforeCursor # -1
        THEN IF CursorInReference(text, cursor, atBeforeCursor)
             THEN IF ReferenceComplete(text, cursor, atBeforeCursor)
                  THEN Hidden("complete")
                  ELSE IF scanOk
                  THEN [isFileListActive |-> TRUE,
                        filteredFiles |->
                            fuzzyMatchFiles(QueryAfter(text, atBeforeCursor),
                                            ProjectFiles),
                        atPosition |-> atBeforeCursor,
                        selectedFileIndex |-> 0,
                        branch |-> "show"]
                  ELSE [isFileListActive |-> FALSE,
                        filteredFiles |-> << >>,
                        atPosition |-> atPosition,
                        selectedFileIndex |-> selectedFileIndex,
                        branch |-> "scanFailed"]
             ELSE Hidden("outside")
        ELSE Hidden("noAt")

SessionOpen == outcome = Undefined

\* Mutant: the effect leaves the selection where it was.
DetectEffect_KeepSelection(scanOk) ==
    /\ SessionOpen
    /\ effectDue
    /\ LET d == Detect(prompt, currentCursor, scanOk)
       IN  /\ isFileListActive' = d.isFileListActive
           /\ filteredFiles' = d.filteredFiles
           /\ atPosition' = d.atPosition
           /\ last' = <<"detect", d.branch>>
    /\ effectDue' = FALSE
    /\ UNCHANGED <<launcherVars, prompt, cursorPosition, currentCursor, outcome,
                   selectedFileIndex>>

\* Mutant: an error of the scan is not caught and ends the session.
DetectEffect_ScanThrows(scanOk) ==
    /\ SessionOpen
    /\ effectDue
    /\ LET d == Detect(prompt, currentCursor, scanOk)
       IN  /\ last' = <<"detect", d.branch>>
           /\ IF d.branch = "scanFailed"
              THEN /\ outcome' = Some([kind |-> "error", data |-> << >>])
                   /\ UNCHANGED <<isFileListActive, filteredFiles, atPosition,
                                  selectedFileIndex>>
              ELSE /\ isFileListActive' = d.isFileListActive
                   /\ filteredFiles' = d.filteredFiles
                   /\ atPosition' = d.atPosition
                   /\ selectedFileIndex' = d.selectedFileIndex
                   /\ UNCHANGED outcome
    /\ effectDue' = FALSE
    /\ UNCHANGED <<launcherVars, prompt, cursorPosition, currentCursor>>

\* The effect runs after a render in which prompt or currentCursor changed.
DetectEffect(scanOk) ==
    /\ SessionOpen
    /\ effectDue
    /\ LET d == Detect(prompt, currentCursor, scanOk)
       IN  /\ isFileListActive' = d.isFileListActive
           /\ filteredFiles' = d.filteredFiles
           /\ atPosition' = d.atPosition
           /\ selectedFileIndex' = d.selectedFileIndex
           /\ last' = <<"detect", d.branch>>
    /\ effectDue' = FALSE
    /\ UNCHANGED <<launcherVars, prompt, cursorPosition, currentCursor, outcome>>

\* The session takes the next key once its effects have run and the cursor
\* override has been applied.
Ready == SessionOpen /\ ~effectDue /\ cursorPosition = Undefined

(***************************************************************************)
(* CleanTextInput: editing keys change the text and the cursor it reports. *)
(***************************************************************************)
InsertAt(s, i, ch) == SubSeq(s, 1, i) \o <<ch>> \o SubSeq(s, i + 1, Len(s))
DeleteAt(s, i) == SubSeq(s, 1, i - 1) \o SubSeq(s, i + 1, Len(s))

\* A character is typed at the cursor while the text is shorter than limit.
Type(ch, limit) ==
    /\ Ready
    /\ Len(prompt) < limit
    /\ prompt' = InsertAt(prompt, currentCursor, ch)
    /\ currentCursor' = currentCursor + 1
    /\ effectDue' = TRUE
    /\ last' = <<"type", ch>>
    /\ UNCHANGED <<launcherVars, isFileListActive, filteredFiles,
                   selectedFileIndex, atPosition, cursorPosition, outcome>>

TypeChar(ch) == Type(ch, MaxLen)

\* Typing in the longer texts of SpecTyping.
TypeLong(ch) == Type(ch, MaxTyped)

Backspace ==
    /\ Ready
    /\ currentCursor > 0
    /\ prompt' = DeleteAt(prompt, currentCursor)
    /\ currentCursor' = currentCursor - 1
    /\ effectDue' = TRUE
    /\ last' = <<"backspace", "">>
    /\ UNCHANGED <<launcherVars, isFileListActive, filteredFiles,
                   selectedFileIndex, atPosition, cursorPosition, outcome>>

MoveCursor(to) ==
    /\ Ready
    /\ to \in 0..Len(prompt)
    /\ to # currentCursor
    /\ currentCursor' = to
    /\ effectDue' = TRUE
    /\ last' = <<"move", "">>
    /\ UNCHANGED <<launcherVars, prompt, isFileListActive, filteredFiles,
                   selectedFileIndex, atPosition, cursorPosition, outcome>>

(***************************************************************************)
(* The key handler of useInput, with what PopupWrapper and CleanTextInput  *)
(* do with the same key.                                                   *)
(***************************************************************************)
\* Mutant: cancelling is never allowed.
shouldAllowCancel_Never == FALSE

\* Mutant: text in the prompt does not block the cancel.
shouldAllowCancel_IgnoresText == ~isFileListActive

\* shouldAllowCancel(): PopupWrapper asks it before it cancels on Escape.
shouldAllowCancel ==
    IF isFileListActive THEN FALSE
    ELSE IF Len(prompt) > 0 THEN FALSE
    ELSE TRUE

\* Escape.  PopupWrapper closes the popup (it writes the cancelled result)
\* if shouldAllowCancel() allows it; the handler of useInput dismisses the
\* file list, else clears the text, else leaves the key to PopupWrapper.
KeyEscape ==
    /\ Ready
    /\ outcome' = IF shouldAllowCancel
                  THEN Some([kind |-> "cancelled", data |-> << >>])
                  ELSE outcome
    /\ IF isFileListActive
       THEN /\ isFileListActive' = FALSE
            /\ filteredFiles' = << >>
            /\ atPosition' = -1
            /\ last' = <<"escape", "dismiss">>
            /\ UNCHANGED <<prompt, currentCursor, effectDue>>
       ELSE IF Len(prompt) > 0
       THEN /\ prompt' = << >>
            /\ currentCursor' = 0
            /\ effectDue' = TRUE
            /\ last' = <<"escape", "clear">>
            /\ UNCHANGED <<isFileListActive, filteredFiles, atPosition>>
       ELSE /\ last' = <<"escape", "close">>
            /\ UNCHANGED <<prompt, currentCursor, effectDue, isFileListActive,
                           filteredFiles, atPosition>>
    /\ UNCHANGED <<launcherVars, selectedFileIndex, cursorPosition>>

\* Arrow up while the file list is active.
KeyUp ==
    /\ Ready
    /\ isFileListActive
    /\ selectedFileIndex' = Max(0, selectedFileIndex - 1)
    /\ last' = <<"up", "">>
    /\ UNCHANGED <<launcherVars, prompt, isFileListActive, filteredFiles,
                   atPosition, cursorPosition, currentCursor, effectDue, outcome>>

\* Arrow down while the file list is active.
KeyDown ==
    /\ Ready
    /\ isFileListActive
    /\ selectedFileIndex' = Min(Len(filteredFiles) - 1, selectedFileIndex + 1)
    /\ last' = <<"down", "">>
    /\ UNCHANGED <<launcherVars, prompt, isFileListActive, filteredFiles,
                   atPosition, cursorPosition, currentCursor, effectDue, outcome>>

\* filteredFiles[selectedFileIndex].
SelectedFile ==
    IF selectedFileIndex >= 0 /\ selectedFileIndex < Len(filteredFiles)
    THEN filteredFiles[selectedFileIndex + 1]
    ELSE <<"undefined">>

\* afterAt.match(/^@[^\s]*/): the length of the match, or 1 without one.
QueryLength(afterAt) ==
    IF afterAt # << >> /\ Head(afterAt) = "@"
    THEN 1 + NonSpaceRun(Tail(afterAt))
    ELSE 1

\* const newPrompt, const newCursorPos of the Tab/Enter branch.
NewPrompt(text, at, selectedFile) ==
    LET beforeAt == Slice(text, 0, at)
        afterAt == SliceFrom(text, at)
        afterQuery == SliceFrom(text, at + QueryLength(afterAt))
        fileReference == <<"@">> \o selectedFile
    IN  beforeAt \o fileReference
          \o (IF CharAt(afterQuery, 0) = " " THEN << >> ELSE <<" ">>)
          \o afterQuery

\* Mutant: the cursor is put after the separator and one more.
NewCursorPos_PastSeparator(text, at, selectedFile) ==
    Len(Slice(text, 0, at)) + 1 + Len(selectedFile) + 2

NewCursorPos(text, at, selectedFile) ==
    Len(Slice(text, 0, at)) + 1 + Len(selectedFile)

\* Mutant: Tab or Enter inserts without looking at the candidates.
KeyAccept_Unchecked ==
    /\ Ready
    /\ isFileListActive
    /\ prompt' = NewPrompt(prompt, atPosition, SelectedFile)
    /\ cursorPosition' = Some(NewCursorPos(prompt, atPosition, SelectedFile))
    /\ isFileListActive' = FALSE
    /\ filteredFiles' = << >>
    /\ atPosition' = -1
    /\ effectDue' = (prompt' # prompt)
    /\ last' = <<"accept", "insert">>
    /\ UNCHANGED <<launcherVars, selectedFileIndex, currentCursor, outcome>>

\* Tab or Enter while the file list is active: insert the selected file.
\* (On Enter, CleanTextInput also calls handleSubmit, which returns at
\* once because the file list is active.)
KeyAccept ==
    /\ Ready
    /\ isFileListActive
    /\ IF Len(filteredFiles) > 0 /\ selectedFileIndex < Len(filteredFiles)
       THEN /\ prompt' = NewPrompt(prompt, atPosition, SelectedFile)
            /\ cursorPosition' =
                   Some(NewCursorPos(prompt, atPosition, SelectedFile))
            /\ isFileListActive' = FALSE
            /\ filteredFiles' = << >>
            /\ atPosition' = -1
            /\ effectDue' = (prompt' # prompt)
            /\ last' = <<"accept", "insert">>
       ELSE /\ last' = <<"accept", "nothing">>
            /\ UNCHANGED <<prompt, cursorPosition, isFileListActive,
                           filteredFiles, atPosition, effectDue>>
    /\ UNCHANGED <<launcherVars, selectedFileIndex, currentCursor, outcome>>

\* CleanTextInput takes the cursorPosition override and reports the cursor;
\* the timer of the first effect then clears the override.
ApplyCursorOverride ==
    /\ SessionOpen
    /\ cursorPosition # Undefined
    /\ currentCursor' = cursorPosition[1]
    /\ cursorPosition' = Undefined
    /\ effectDue' = (effectDue \/ currentCursor' # currentCursor)
    /\ last' = <<"override", "">>
    /\ UNCHANGED <<launcherVars, prompt, isFileListActive, filteredFiles,
                   selectedFileIndex, atPosition, outcome>>

\* Mutant: handleSubmit does not look at the file list.
handleSubmit_Unguarded ==
    /\ Ready
    /\ outcome' = Some([kind |-> "success", data |-> prompt])
    /\ last' = <<"submit", "">>
    /\ UNCHANGED <<launcherVars, prompt, isFileListActive, filteredFiles,
                   selectedFileIndex, atPosition, cursorPosition,
                   currentCursor, effectDue>>

\* Enter while the file list is not active: CleanTextInput calls
\* handleSubmit, which writes the success result and exits.
handleSubmit ==
    /\ Ready
    /\ ~isFileListActive
    /\ outcome' = Some([kind |-> "success", data |-> prompt])
    /\ last' = <<"submit", "">>
    /\ UNCHANGED <<launcherVars, prompt, isFileListActive, filteredFiles,
                   selectedFileIndex, atPosition, cursorPosition,
                   currentCursor, effectDue>>

SessionInit ==
    /\ prompt = << >>
    /\ isFileListActive = FALSE
    /\ filteredFiles = << >>
    /\ selectedFileIndex = 0
    /\ atPosition = -1
    /\ cursorPosition = Undefined
    /\ currentCursor = 0
    /\ effectDue = TRUE
    /\ outcome = Undefined
    /\ last = <<"mount", "">>

(***************************************************************************)
(* Spec: one caller, every launch operation.                               *)
(* SpecConcurrent: NumCalls callers whose launches overlap.                *)
(***************************************************************************)
HostInit ==
    /\ clock = 0
    /\ files = {}
    /\ statusMessage = NoMessage
    /\ timers = << >>
    /\ ignoreInput = FALSE
    /\ ignoreTimers = 0

LauncherInit ==
    /\ popupsSupported \in BOOLEAN
    /\ HostInit
    /\ call = [i \in Calls |-> IdleFrame]

Init == LauncherInit /\ SessionInit

vars == <<launcherVars, sessionVars>>

Next ==
    \/ \E op \in Ops, spawnOk \in BOOLEAN : Start(1, op, spawnOk)
    \/ \E ok \in BOOLEAN, spawnOk \in BOOLEAN : ImportDone(1, ok, spawnOk)
    \/ \E ok \in BOOLEAN, partial \in BOOLEAN, spawnOk \in BOOLEAN :
          WriteFileDone(1, ok, partial, spawnOk)
    \/ \E ok \in BOOLEAN, spawnOk \in BOOLEAN : GetAllDimensionsDone(1, ok, spawnOk)
    \/ \E r \in ResultsOf(call[1].op) : ResultResolved(1, r)
    \/ ResultRejected(1)
    \/ UnlinkDone(1)
    \/ UnlinkCatchDone(1)
    \/ \E ok \in BOOLEAN : CallbackDone(1, ok)
    \/ Tick
    \/ \E k \in 1..Len(timers) : StatusTimerFires(k)
    \/ IgnoreTimerFires

Spec == Init /\ [][Next]_vars

NextConcurrent ==
    \/ \E i \in Calls, op \in ConcurrentOps, spawnOk \in BOOLEAN : Start(i, op, spawnOk)
    \/ \E i \in Calls, ok \in BOOLEAN, partial \in BOOLEAN, spawnOk \in BOOLEAN :
          WriteFileDone(i, ok, partial, spawnOk)
    \/ \E i \in Calls, ok \in BOOLEAN, spawnOk \in BOOLEAN :
          GetAllDimensionsDone(i, ok, spawnOk)
    \/ \E i \in Calls : \E r \in ResultsOf(call[i].op) : ResultResolved(i, r)
    \/ \E i \in Calls : ResultRejected(i)
    \/ \E i \in Calls : UnlinkDone(i)
    \/ \E i \in Calls : UnlinkCatchDone(i)
    \/ Tick
    \/ \E k \in 1..Len(timers) : StatusTimerFires(k)

SpecConcurrent == Init /\ [][NextConcurrent]_vars

(***************************************************************************)
(* SpecHandle: handleResult applied to every PopupResult value, with and   *)
(* without the callbacks.                                                  *)
(***************************************************************************)
AllResults ==
    {PopupResult(s, d, c, e) :
        s \in BOOLEAN, d \in {Undefined, Some("x"), Some("false")},
        c \in BOOLEAN, e \in {Undefined, Some(""), Some("boom")}}

InitHandle ==
    /\ popupsSupported = TRUE
    /\ HostInit
    /\ SessionInit
    /\ \E r \in AllResults, onS \in {"none", "kebab"}, onE \in {"none", "kebab"} :
          call = [i \in Calls |->
                    IF i = 1
                    THEN [IdleFrame EXCEPT !.pc = "handleResult",
                                           !.result = Some(r),
                                           !.onSuccess = onS,
                                           !.onError = onE]
                    ELSE IdleFrame]

HandleResultCall(i) ==
    /\ call[i].pc = "handleResult"
    /\ LET h == handleResult(World(i), call[i].result[1], call[i].onSuccess,
                             call[i].onError)
       IN  Commit(i, [h EXCEPT !.c.pc = "done"])
    /\ UNCHANGED <<sessionVars, popupsSupported, clock, files>>

NextHandle ==
    \/ HandleResultCall(1)
    \/ \E k \in 1..Len(timers) : StatusTimerFires(k)

SpecHandle == InitHandle /\ [][NextHandle]_vars

(***************************************************************************)
(* SpecSession: the popup session alone.                                   *)
(***************************************************************************)
NextSession ==
    \/ \E scanOk \in BOOLEAN : DetectEffect(scanOk)
    \/ \E ch \in Alphabet : TypeChar(ch)
    \/ Backspace
    \/ \E to \in 0..Len(prompt) : MoveCursor(to)
    \/ KeyEscape
    \/ KeyUp
    \/ KeyDown
    \/ KeyAccept
    \/ ApplyCursorOverride
    \/ handleSubmit

InitSession == Init /\ popupsSupported = TRUE

SpecSession == InitSession /\ [][NextSession]_vars

(***************************************************************************)
(* SpecTyping: the session with typing, deleting and cursor moves only, on *)
(* texts up to MaxTyped characters.                                        *)
(***************************************************************************)
NextTyping ==
    \/ \E scanOk \in BOOLEAN : DetectEffect(scanOk)
    \/ \E ch \in Alphabet : TypeLong(ch)
    \/ Backspace
    \/ \E to \in 0..Len(prompt) : MoveCursor(to)

SpecTyping == InitSession /\ [][NextTyping]_vars

(***************************************************************************)
(* SpecAccept: the accept gesture applied to a shown list.  The session    *)
(* starts where a detection has shown the candidates of a project for a    *)
(* text and a cursor inside a reference; the keys are up, down and accept. *)
(***************************************************************************)
SeeRe == <<"s", "e", "e", " ", "@", "r", "e">>
SeeReRest == <<"s", "e", "e", " ", "@", "r", "e", " ", "x">>
Readme == <<"r", "e", "a", "d", "m", "e", ".", "m", "d">>

AcceptTexts ==
    {SeeRe, SeeReRest} \cup UNION {[1..k -> Alphabet] : k \in 0..MaxLen}

\* The candidate lists a project can give for the query.
CandidateLists == {<<Readme>>, <<Readme, <<"r", "e", "s">> >>, ProjectFiles}

InitAccept ==
    /\ popupsSupported = TRUE
    /\ LauncherInit
    /\ \E text \in AcceptTexts, cands \in CandidateLists :
          \E cursor \in 0..Len(text) :
             LET at == ScanBack(text, cursor - 1)
             IN  /\ at # -1
                 /\ CursorInReference(text, cursor, at)
                 /\ ~ReferenceComplete(text, cursor, at)
                 /\ prompt = text
                 /\ currentCursor = cursor
                 /\ isFileListActive = TRUE
                 /\ atPosition = at
                 /\ filteredFiles = cands
                 /\ selectedFileIndex = 0
    /\ cursorPosition = Undefined
    /\ effectDue = FALSE
    /\ outcome = Undefined
    /\ last = <<"detect", "show">>

NextAccept ==
    \/ KeyUp
    \/ KeyDown
    \/ KeyAccept
    \/ ApplyCursorOverride

SpecAccept == InitAccept /\ [][NextAccept]_vars

(***************************************************************************)
(* SpecEscape: Escape pressed again and again, with no other input, from a *)
(* state where a detection has shown the list.                             *)
(***************************************************************************)
InitEscape ==
    /\ popupsSupported = TRUE
    /\ LauncherInit
    /\ \E text \in UNION {[1..k -> Alphabet] : k \in 0..MaxLen} :
          \E cursor \in 0..Len(text) :
             LET at == ScanBack(text, cursor - 1)
             IN  /\ at # -1
                 /\ CursorInReference(text, cursor, at)
                 /\ ~ReferenceComplete(text, cursor, at)
                 /\ prompt = text
                 /\ currentCursor = cursor
                 /\ isFileListActive = TRUE
                 /\ atPosition = at
                 /\ filteredFiles =
                        fuzzyMatchFiles(QueryAfter(text, at), ProjectFiles)
                 /\ selectedFileIndex = 0
    /\ cursorPosition = Undefined
    /\ effectDue = FALSE
    /\ outcome = Undefined
    /\ last = <<"detect", "show">>

NextEscape ==
    \/ KeyEscape
    \/ \E scanOk \in BOOLEAN : DetectEffect(scanOk)

SpecEscape == InitEscape /\ [][NextEscape]_vars

(***************************************************************************)
(* SpecChannel: one caller, the launch operations that pass a payload,     *)
(* with every payload of PayloadsOf.                                       *)
(***************************************************************************)
NextChannel ==
    \/ \E op \in {o \in Ops : HasTempData(o)}, spawnOk \in BOOLEAN :
          \E p \in PayloadsOf(op) : Launch(1, op, p, spawnOk)
    \/ \E ok \in BOOLEAN, partial \in BOOLEAN, spawnOk \in BOOLEAN :
          WriteFileDone(1, ok, partial, spawnOk)
    \/ \E ok \in BOOLEAN, spawnOk \in BOOLEAN : GetAllDimensionsDone(1, ok, spawnOk)
    \/ \E r \in ResultsOf(call[1].op) : ResultResolved(1, r)
    \/ ResultRejected(1)
    \/ UnlinkDone(1)
    \/ UnlinkCatchDone(1)
    \/ Tick
    \/ \E k \in 1..Len(timers) : StatusTimerFires(k)
    \/ IgnoreTimerFires

SpecChannel == InitSession /\ [][NextChannel]_vars

(***************************************************************************)
(*                               Properties                                *)
(***************************************************************************)
InFlight(i) == call[i].pc \notin {"idle", "done"}

IsErrorResult(r) == ~r.success /\ ~r.cancelled /\ TruthyString(r.error)
IsCancelledResult(r) == r.cancelled /\ ~r.success

\* The failures inside launchPopup: channel I/O, dimension fetch, spawn, await.
LauncherFailures == {"writeFile", "getAllDimensions", "spawn", "resultPromise"}

EventRank(e) ==
    CASE e = "create" -> 1
      [] e = "spawn" -> 2
      [] e = "result" -> 3
      [] e = "unlink" -> 4

C2_EventOrder ==
    \A i \in Calls :
        LET ev == call[i].events
        IN  /\ \A a, b \in 1..Len(ev) : a < b => EventRank(ev[a]) < EventRank(ev[b])
            /\ call[i].launchExit # "none" /\ call[i].created
                   => ev # << >> /\ ev[Len(ev)] = "unlink"

\* One launch went through all four events and another, whose spawn
\* failed after the file was created, still ran the unlink.
C2_Witness ==
    \E i, j \in Calls :
        /\ call[i].events = <<"create", "spawn", "result", "unlink">>
        /\ call[j].events = <<"create", "unlink">>
        /\ call[j].failure = "spawn"

\* C3: two launches in flight at the same time never use the same
\* channel-file name.
C3_DistinctChannelFiles ==
    \A i, j \in Calls :
        i # j /\ InFlight(i) /\ InFlight(j)
              /\ IsDefined(call[i].tempFile) /\ IsDefined(call[j].tempFile)
            => call[i].tempFile # call[j].tempFile

C5_UnsupportedRejects ==
    ~popupsSupported
        => /\ files = {}
           /\ \A i \in Calls :
                 /\ call[i].pc \in {"idle", "done"}
                 /\ call[i].pc = "done"
                        => /\ call[i].ret = Some(NullValue(call[i].op))
                           /\ call[i].shown = 1
                           /\ call[i].tempFile = Undefined
                           /\ ~call[i].created
                           /\ call[i].spawned = 0
                           /\ call[i].events = << >>
                           /\ call[i].result = Undefined

C5_Witness ==
    /\ ~popupsSupported
    /\ call[1].pc = "done"
    /\ call[1].op = "logsPopup"
    /\ statusMessage = MsgUnsupported

\* C6: handleResult handles every PopupResult value by one of the three
\* branches success, cancelled, error: none reaches the final return.
C6_NoFallThrough ==
    call[1].pc = "done" /\ IsDefined(call[1].result)
        => call[1].branch \in {"success", "cancelled", "error"}

C8_CancelledSilent ==
    \A i \in Calls :
        call[i].pc = "done" /\ IsDefined(call[i].result)
                            /\ IsCancelledResult(call[i].result[1])
            => /\ call[i].ret = Some(NullValue(call[i].op))
               /\ call[i].shown = 0
               /\ call[i].onErrorCalls = 0
               /\ call[i].defaultShown = 0

C8_Witness ==
    /\ call[1].pc = "done"
    /\ call[1].op = "confirmPopup"
    /\ call[1].result = Some(Cancelled)
    /\ call[1].ret = Some("false")
    /\ statusMessage = NoMessage

\* C9: every launch operation whose popup result is the Error variant
\* shows a transient status message (which a timer later clears).
C9_ErrorShowsMessage ==
    \A i \in Calls :
        call[i].pc = "done" /\ IsDefined(call[i].result)
                            /\ IsErrorResult(call[i].result[1])
            => call[i].shown >= 1

\* C10: after the detection effect has run on (prompt, currentCursor) with
\* a working file index, the file list is active exactly when some "@"
\* lies before the cursor and the cursor is at most at the end of the run
\* of non-whitespace characters after the nearest such "@"; then
\* atPosition is that "@" and the candidates are the fuzzy match of the
\* run.  The examples of the specification are part of the statement.
AtsBefore(text, cursor) ==
    {k \in 0..(cursor - 1) : k < Len(text) /\ text[k + 1] = "@"}

NearestAt(text, cursor) ==
    CHOOSE a \in AtsBefore(text, cursor) :
        \A k \in AtsBefore(text, cursor) : k <= a

\* The length n of the maximal run of non-whitespace characters after the
\* "@" at a: positions a+1 .. a+n hold none, position a+n+1 ends the text
\* or holds one.
RunAfter(text, a) ==
    CHOOSE n \in 0..(Len(text) - a - 1) :
        /\ \A k \in 1..n : ~IsWhitespace(text[a + 1 + k])
        /\ a + 1 + n = Len(text) \/ IsWhitespace(text[a + n + 2])

MentionLive(text, cursor) ==
    /\ AtsBefore(text, cursor) # {}
    /\ cursor <= NearestAt(text, cursor) + 1
                    + RunAfter(text, NearestAt(text, cursor))

MentionQuery(text, cursor) ==
    LET a == NearestAt(text, cursor)
    IN  SubSeq(text, a + 2, a + 1 + RunAfter(text, a))

FixBU == <<"f", "i", "x", " ", "@", "B", "U">>
FixBugRest ==
    <<"f", "i", "x", " ", "@", "B", "U", "G", ".", "m", "d", " ",
      "r", "e", "s", "t">>

C10_MentionDetection ==
    /\ last[1] = "detect" /\ last[2] # "scanFailed"
           => /\ isFileListActive = MentionLive(prompt, currentCursor)
              /\ isFileListActive
                     => /\ atPosition = NearestAt(prompt, currentCursor)
                        /\ filteredFiles =
                               fuzzyMatchFiles(
                                   MentionQuery(prompt, currentCursor),
                                   ProjectFiles)
    /\ LET d == Detect(FixBU, 7, TRUE)
       IN  /\ d.isFileListActive
           /\ d.atPosition = 4
           /\ QueryAfter(FixBU, 4) = <<"B", "U">>
           /\ d.filteredFiles = fuzzyMatchFiles(<<"B", "U">>, ProjectFiles)
    /\ ~Detect(FixBugRest, 13, TRUE).isFileListActive
    /\ Detect(FixBugRest, 11, TRUE).isFileListActive

\* The effect has run on "a@a" with the cursor at the end: the list is
\* shown for the "@" at 1 with both files matching the query "a".
C10_Witness ==
    /\ last = <<"detect", "show">>
    /\ prompt = <<"a", "@", "a">>
    /\ currentCursor = 3
    /\ isFileListActive
    /\ atPosition = 1
    /\ filteredFiles = ProjectFiles

\* The nearest "@" before the cursor starts a completed reference (a
\* non-empty token followed by whitespace) and the cursor is past that
\* whitespace position.
PastCompleted(text, cursor) ==
    /\ AtsBefore(text, cursor) # {}
    /\ LET a == NearestAt(text, cursor)
           n == RunAfter(text, a)
       IN  n > 0 /\ a + 1 + n < Len(text) /\ cursor > a + 1 + n

\* The cursor is between just after the "@" and the end of the token of a
\* completed reference.
InsideCompleted(text, cursor) ==
    \E a \in 0..(Len(text) - 1) :
        /\ text[a + 1] = "@"
        /\ RunAfter(text, a) > 0
        /\ a + 1 + RunAfter(text, a) < Len(text)
        /\ cursor \in (a + 1)..(a + 1 + RunAfter(text, a))

\* C11: with the cursor past the whitespace that completes a reference the
\* detection leaves the list hidden, and typing a character other than "@"
\* there keeps the cursor past the reference and the list hidden, so no
\* sequence of such keystrokes brings the list back; with the cursor
\* inside or at the end of the token the detection shows the list.
C11_NoReappearPastReference ==
    /\ [](last[1] = "detect" /\ PastCompleted(prompt, currentCursor)
              => ~isFileListActive)
    /\ [][(/\ PastCompleted(prompt, currentCursor)
           /\ ~isFileListActive
           /\ prompt' # prompt
           /\ last'[1] = "type" /\ last'[2] # "@")
              => /\ PastCompleted(prompt', currentCursor')
                 /\ ~isFileListActive']_vars
    /\ [](last[1] = "detect" /\ last[2] # "scanFailed"
              /\ InsideCompleted(prompt, currentCursor)
              => isFileListActive)

\* "@a " was completed, an "a" was typed after it, and the detection that
\* followed left the list hidden.
C11_Witness ==
    /\ prompt = <<"@", "a", " ", "a">>
    /\ currentCursor = 4
    /\ last = <<"detect", "outside">>
    /\ ~isFileListActive

\* C12: the selected index is never negative and, when there are
\* candidates, is at most the index of the last one.
C12_SelectionInRange ==
    /\ selectedFileIndex >= 0
    /\ Len(filteredFiles) > 0 => selectedFileIndex <= Len(filteredFiles) - 1

\* C13: a detection that ends with the list active leaves the selection at
\* 0, and the list is shown with a selection other than 0 only right after
\* an up or down key (or an accept key that had nothing to insert): no
\* change of text or cursor keeps a moved selection.
C13_RescanResetsSelection ==
    /\ last[1] = "detect" /\ isFileListActive => selectedFileIndex = 0
    /\ isFileListActive /\ ~effectDue /\ selectedFileIndex # 0
           => last[1] \in {"up", "down"} \/ last = <<"accept", "nothing">>

\* The detection has shown both candidates for "@a" with the first selected.
C13_Witness ==
    /\ last = <<"detect", "show">>
    /\ prompt = <<"@", "a">>
    /\ currentCursor = 2
    /\ Len(filteredFiles) = 2
    /\ selectedFileIndex = 0

\* The text the accept gesture is to propose for the "@" at a and the
\* candidate file: the token after the "@" replaced by the candidate, and a
\* space added unless whitespace follows.
AcceptedText(text, a, file) ==
    LET rest == SubSeq(text, a + RunAfter(text, a) + 2, Len(text))
        sep == IF rest # << >> /\ IsWhitespace(rest[1]) THEN << >> ELSE <<" ">>
    IN  SubSeq(text, 1, a) \o <<"@">> \o file \o sep \o rest

\* A step of the accept gesture that inserts the selected candidate.
AcceptStep ==
    /\ last' = <<"accept", "insert">>
    /\ cursorPosition = Undefined /\ cursorPosition' # Undefined
    /\ atPosition >= 0 /\ atPosition < Len(prompt)
    /\ prompt[atPosition + 1] = "@"

\* C14: the accept gesture proposes the text before the anchor, "@", the
\* selected candidate, a separator (none when the rest begins with a
\* whitespace character, else one space) and the rest, and the cursor
\* anchor + 1 + length of the candidate.
C14_AcceptSplice ==
    [][AcceptStep
          => /\ prompt' = AcceptedText(prompt, atPosition, SelectedFile)
             /\ cursorPosition' = Some(atPosition + 1 + Len(SelectedFile))]_vars

SeeReadme ==
    <<"s", "e", "e", " ", "@", "r", "e", "a", "d", "m", "e", ".", "m", "d", " ">>

\* C15 as claimed: accepting "readme.md" for "see @re" gives the text
\* "see @readme.md " and the cursor 16.
C15_CursorSixteen ==
    /\ NewPrompt(SeeRe, 4, Readme) = SeeReadme
    /\ NewCursorPos(SeeRe, 4, Readme) = 16
    /\ last = <<"accept", "insert">> /\ prompt = SeeReadme
           => cursorPosition = Some(16)

\* C15 amended: accepting "readme.md" for "see @re" gives the text
\* "see @readme.md " (one space added) and the cursor 14, the end of the
\* inserted reference.
C15_CursorFourteen ==
    /\ NewPrompt(SeeRe, 4, Readme) = SeeReadme
    /\ NewCursorPos(SeeRe, 4, Readme) = 14
    /\ last = <<"accept", "insert">> /\ prompt = SeeReadme
           => cursorPosition = Some(14)

\* The accept gesture has turned "see @re" into "see @readme.md ".
C15_Witness ==
    /\ last = <<"accept", "insert">>
    /\ prompt = SeeReadme
    /\ cursorPosition = Some(14)
    /\ currentCursor = 7

\* C16: after the accept gesture has inserted a candidate the list is
\* hidden and empty, and the detections that re-evaluate the text change
\* and the cursor move of the insertion leave it hidden and empty.
C16_HiddenAfterAccept ==
    /\ [](last = <<"accept", "insert">>
              => ~isFileListActive /\ filteredFiles = << >>)
    /\ [][(last = <<"accept", "insert">> \/ last[1] = "override")
              /\ last'[1] = "detect"
              => ~isFileListActive' /\ filteredFiles' = << >>]_vars

CancelledOutcome == Some([kind |-> "cancelled", data |-> << >>])

\* C17: from a shown list (the text is not empty), with Escape the only
\* input: the first Escape hides the list and leaves the text and the
\* session; the second clears the text and leaves the session open; the
\* third closes the session with the cancelled outcome.
C17_ProgressiveCancel ==
    /\ [](last = <<"detect", "show">>
              => isFileListActive /\ prompt # << >> /\ outcome = Undefined)
    /\ [][last = <<"detect", "show">> /\ last'[1] = "escape"
              => /\ last' = <<"escape", "dismiss">>
                 /\ ~isFileListActive'
                 /\ prompt' = prompt
                 /\ outcome' = Undefined]_vars
    /\ [][last = <<"escape", "dismiss">> /\ last' # last
              => /\ last' = <<"escape", "clear">>
                 /\ prompt' = << >>
                 /\ ~isFileListActive'
                 /\ outcome' = Undefined]_vars
    /\ [][last = <<"escape", "clear">> /\ last' # last
              => /\ last' = <<"detect", "noAt">>
                 /\ prompt' = << >>
                 /\ ~isFileListActive'
                 /\ outcome' = Undefined]_vars
    /\ [][last = <<"detect", "noAt">> /\ last' # last
              => /\ last' = <<"escape", "close">>
                 /\ outcome' = CancelledOutcome]_vars

\* The third Escape has closed the session.
C17_Witness ==
    /\ last = <<"escape", "close">>
    /\ outcome = CancelledOutcome
    /\ prompt = << >>
    /\ ~isFileListActive

\* C18: the session is closed with the cancelled outcome only from a state
\* with the list hidden and the text empty, and an Escape pressed while
\* the list is shown or the text is not empty never closes it.
C18_CancelOnlyWhenIdle ==
    /\ [][outcome = Undefined /\ outcome' = CancelledOutcome
              => ~isFileListActive /\ prompt = << >>]_vars
    /\ [][last'[1] = "escape" /\ last' # last
              /\ (isFileListActive \/ prompt # << >>)
              => outcome' = Undefined]_vars

\* An Escape pressed on "@a" with the list shown has hidden the list and
\* left the session open.
C18_Witness ==
    /\ last = <<"escape", "dismiss">>
    /\ prompt = <<"@", "a">>
    /\ ~isFileListActive
    /\ outcome = Undefined

\* C19: a detection in which the file scan or the match throws leaves the
\* list hidden and empty, changes neither the text nor the cursor and
\* leaves the session open; the keys are taken afterwards.
C19_ScanFailureAbsorbed ==
    /\ [][last'[1] = "detect" /\ last'[2] = "scanFailed" /\ effectDue
              => /\ ~isFileListActive'
                 /\ filteredFiles' = << >>
                 /\ prompt' = prompt
                 /\ currentCursor' = currentCursor
                 /\ outcome' = Undefined]_vars
    /\ [](last = <<"detect", "scanFailed">>
              => /\ ~isFileListActive /\ filteredFiles = << >>
                 /\ SessionOpen
                 /\ cursorPosition = Undefined
                        => ENABLED Backspace /\ ENABLED KeyEscape
                               /\ ENABLED handleSubmit)

\* The scan failed while "@a" was being typed: nothing is shown and the
\* text is as typed.
C19_Witness ==
    /\ last = <<"detect", "scanFailed">>
    /\ prompt = <<"@", "a">>
    /\ currentCursor = 2
    /\ ~isFileListActive
    /\ filteredFiles = << >>
    /\ outcome = Undefined

\* The files whose write has ended without a failure.
WrittenFiles == {f \in files : call[f.writer].failure # "writeFile"}

\* The JSON value of a payload: members that are undefined are absent,
\* undefined elements and numbers that are not finite are null.
RECURSIVE JSONValueOf(_)
JSONValueOf(x) ==
    CASE x.t = "undefined" -> JNull
      [] x.t = "number" -> IF x.n \in NonFinite THEN JNull ELSE x
      [] x.t = "array" -> JArray([k \in 1..Len(x.a) |-> JSONValueOf(x.a[k])])
      [] x.t = "object" ->
             LET kept == SelectSeq(x.o, LAMBDA m : m[2].t # "undefined")
             IN  JObject([k \in 1..Len(kept) |->
                             <<kept[k][1], JSONValueOf(kept[k][2])>>])
      [] OTHER -> x

\* C20 as claimed: decoding the document written to the channel file gives
\* a value deep-equal to the payload.
C20_RoundTripDeepEqual ==
    \A f \in WrittenFiles : JSONparse(f.content) = call[f.writer].tempData

\* C20 amended: decoding the document gives the JSON value of the payload,
\* which is deep-equal to the payload when the payload holds no undefined
\* member or element and no number that is not finite.
C20_RoundTripJSONValue ==
    \A f \in WrittenFiles :
        LET payload == call[f.writer].tempData
        IN  /\ JSONparse(f.content) = JSONValueOf(payload)
            /\ JSONValueOf(payload) = payload
                   => JSONparse(f.content) = payload

\* The payload of launchReopenWorktreePopup with two worktrees (an array of
\* objects with a date string and a boolean) is in its file and decodes to
\* itself.
C20_Witness ==
    \E f \in WrittenFiles :
        /\ call[f.writer].tempData =
               JObject(<< <<"worktrees",
                            JArray(<<Worktree(FALSE), Worktree(TRUE)>>)>> >>)
        /\ JSONparse(f.content) = call[f.writer].tempData


\* The session's result is a success.
SuccessOutcome == outcome # Undefined /\ outcome[1].kind = "success"

\* C21: a success result is written only by a step that starts with the
\* file list inactive; Enter while the list is active writes no result: with
\* candidates it inserts the selected one, with none it changes nothing.
C21_NoSubmitWhileActive ==
    [][/\ (~SuccessOutcome /\ SuccessOutcome') => ~isFileListActive
       /\ (isFileListActive /\ last' # last /\ last'[1] = "accept")
             => /\ outcome' = outcome
                /\ IF Len(filteredFiles) > 0
                   THEN /\ selectedFileIndex \in 0..(Len(filteredFiles) - 1)
                        /\ last'[2] = "insert"
                        /\ prompt' = NewPrompt(prompt, atPosition,
                                         filteredFiles[selectedFileIndex + 1])
                   ELSE /\ last'[2] = "nothing"
                        /\ UNCHANGED <<prompt, isFileListActive, filteredFiles,
                                       selectedFileIndex, atPosition,
                                       cursorPosition, currentCursor,
                                       effectDue>>]_vars

\* Enter was pressed on an active list without candidates: the session is
\* still open and the list still active.
C21_Witness ==
    /\ last = <<"accept", "nothing">>
    /\ isFileListActive
    /\ filteredFiles = << >>
    /\ prompt # << >>
    /\ outcome = Undefined


\* C22: a timer of showTempMessage that blanks a shown message is the timer
\* of that message, which is the one set last.
C22_ClearedByOwnTimer ==
    [][\A k \in 1..Len(timers) :
          (StatusTimerFires(k) /\ statusMessage # NoMessage)
              => k = Len(timers)]_vars


\* C23: a Tab or Enter that inserts does so with the selection inside the
\* candidate list and with the stored position inside the text, on an "@".
C23_InsertionWellFormed ==
    [][(last' # last /\ last' = <<"accept", "insert">>)
          => /\ 0 <= selectedFileIndex
             /\ selectedFileIndex < Len(filteredFiles)
             /\ 0 <= atPosition
             /\ atPosition < Len(prompt)
             /\ CharAt(prompt, atPosition) = "@"
             /\ atPosition = ScanBack(prompt, currentCursor - 1)]_vars

\* The second candidate was inserted at the second "@" of the text, after
\* the selection had been moved down.
C23_Witness ==
    /\ last = <<"accept", "insert">>
    /\ prompt = <<"@", "@", "b", "a", " ">>
    /\ cursorPosition = Some(4)
    /\ selectedFileIndex = 1
    /\ atPosition = -1


\* C24: while the file list is not active, there are no candidates and the
\* stored position of the "@" is -1.
C24_InactiveFullyReset ==
    ~isFileListActive => filteredFiles = << >> /\ atPosition = -1


\* C25 as stated: for some text of up to MaxTyped characters and some
\* cursor in it, the detection hides the list by its "reference complete"
\* branch.
C25_CompletionBranchReachable ==
    \E k \in 0..MaxTyped : \E text \in [1..k -> Alphabet] : \E cursor \in 0..k :
        Detect(text, cursor, TRUE).branch = "complete"

\* C25: no detection hides the list by its "reference complete" branch;
\* when the token before the cursor is non-empty, a space follows it and
\* the cursor is past that space, the cursor is outside the reference and
\* the detection hides the list by its "cursor outside" branch.
C25_CompletionBranchNeverTaken ==
    /\ last # <<"detect", "complete">>
    /\ LET at == ScanBack(prompt, currentCursor - 1)
       IN  (last[1] = "detect" /\ at # -1
                /\ ReferenceComplete(prompt, currentCursor, at))
              => /\ ~CursorInReference(prompt, currentCursor, at)
                 /\ last[2] = "outside"
                 /\ ~isFileListActive
                 /\ filteredFiles = << >>
                 /\ atPosition = -1

\* The detection ran on "@a " with the cursor after the space and hid the
\* list as "cursor outside".
C25_Witness ==
    /\ prompt = <<"@", "a", " ">>
    /\ currentCursor = 3
    /\ last = <<"detect", "outside">>
    /\ ~isFileListActive
    /\ atPosition = -1

=============================================================================
